---- MODULE Spec2Model ----
(***************************************************************************)
(* ProductViewSet (src/products/views.py): a ModelViewSet over Product     *)
(* with filter/search/ordering backends, two rate throttles, a page cache  *)
(* of 60 on list, and the cached_detail / notify_update extra actions.     *)
(*                                                                         *)
(* The data store is a table of rows, the cache a set of live entries,     *)
(* time a clock that Tick advances.  Each request handler is one action:   *)
(* throttle check (APIView.initial), then the handler body.  For the       *)
(* interleaving of cached_detail between workers the handler is also       *)
(* given as its three steps (product read, cache read, cache write).       *)
(***************************************************************************)
EXTENDS Integers, Sequences, FiniteSets, TLC

(* ------------------------------ bounds -------------------------------- *)

\* The most products ever created (the AutoField sequence stops there).
MaxProducts == 2

\* The clock stops here.
MaxTime == 300

\* The clock stops here where list requests are followed.
MaxListTime == 90

\* The clock stops here where throttled requests are followed.
MaxThrottleTime == 60

\* The clock stops here where interleaved requests are followed.
MaxConcTime == 400

\* The most page-cache entries alive at once.
MaxPageEntries == 2

\* Requests per ThrottleDuration allowed to an anonymous / any caller
\* (DEFAULT_THROTTLE_RATES, environment-configured).
AnonRate == 1

UserRate == 3

ThrottleDuration == 60

(* ------------------------- program constants -------------------------- *)

\* DetailTimeout as it would be with the expiry doubled.
DetailTimeoutLong == 2 * 300

\* cache.set(cache_key, data, timeout=300)
DetailTimeout == 300

\* ListTimeout as it would be with the detail expiry used for pages.
ListTimeoutLong == 5 * 60

\* cache_page(60)
ListTimeout == 60

(* ------------------------------- state -------------------------------- *)

VARIABLES
    db,          \* the Product table: a set of rows
    next_id,     \* the id the next created Product gets
    now,         \* the clock
    cache,       \* low-level cache entries written by cached_detail
    page_cache,  \* entries written by cache_page on list
    throttle,    \* throttle key -> request timestamps, newest first
    resp,        \* the last request and its response
    pc,          \* worker -> position inside cached_detail
    local,       \* worker -> the request's local variables
    held,        \* history: states a product had and when it lost them
    first,       \* history: per product, the response a call stored
    listed,      \* history: per list parameters, earlier responses
    admitted     \* history: caller -> times of its admitted requests

vars == <<db, next_id, now, cache, page_cache, throttle, resp, pc, local,
          held, first, listed, admitted>>

\* The history variables; a specification that does not use them leaves
\* them alone.
NoLog == UNCHANGED <<held, first, listed, admitted>>

(* ------------------------------ Product ------------------------------- *)

Fields == {"id", "name", "description", "price", "stock", "created_at"}

\* Fields a request body may set: id and created_at are server-assigned.
Writable == {"name", "description", "price", "stock"}

\* The wire representation of a row.
Serialize(row) ==
    [id |-> row.id, name |-> row.name, description |-> row.description,
     price |-> row.price, stock |-> row.stock, created_at |-> row.created_at]

\* A body is valid for create / PUT when it has every writable field, and
\* for PATCH whatever it has.
IsValid(body, partial) == partial \/ Writable \subseteq DOMAIN body

\* The row a valid body makes of `row`: read-only fields are dropped.
ApplyBody(row, body) ==
    [f \in Fields |-> IF f \in Writable /\ f \in DOMAIN body
                      THEN body[f] ELSE row[f]]

\* A new row from a valid body: id from the sequence, created_at the clock.
NewRow(body) ==
    ApplyBody([id |-> next_id, name |-> <<>>, description |-> <<>>,
               price |-> 0, stock |-> 0, created_at |-> now], body)

\* No row.
Absent == [id |-> 0, name |-> <<>>, description |-> <<>>, price |-> 0,
           stock |-> 0, created_at |-> 0]

(* ------------------------------ lookup -------------------------------- *)

\* The ids a URL can name: one more than are ever assigned.
IdRange == 1 .. (MaxProducts + 1)

\* URL spellings of an id that the integer primary-key lookup accepts.
Spellings(i) == IF i = 1 THEN {ToString(i), "0" \o ToString(i)}
                ELSE {ToString(i)}

\* The pk path segments requests use; "x" is no integer.
PKs == UNION {Spellings(i) : i \in IdRange} \cup {"x"}

\* int(pk): 0 when pk is no integer (the lookup then matches nothing).
ParsePk(pk) ==
    IF \E i \in IdRange : pk \in Spellings(i)
    THEN CHOOSE i \in IdRange : pk \in Spellings(i)
    ELSE 0

\* self.get_object(): the rows the queryset has for pk (none: Http404).
GetObject(pk) == {r \in db : r.id = ParsePk(pk)}

\* CacheKey as it would be with the pk left out of the key.
CacheKeyShared(pk) == "product_detail_"

\* f'product_detail_{pk}'
CacheKey(pk) == "product_detail_" \o pk

(* ------------------------------ cache --------------------------------- *)

Expired(e, t) == t >= e.set_at + e.timeout

\* cache.get(key): the live entries under key (at most one).
CacheGet(c, key) == {e \in c : e.key = key /\ ~Expired(e, now)}

\* cache.set(key, data, timeout)
CacheSet(c, key, data, timeout) ==
    {e \in c : e.key # key}
        \cup {[key |-> key, data |-> data, set_at |-> now, timeout |-> timeout]}

(* ----------------------------- throttles ------------------------------ *)

Callers == {"anon", "u1"}

IsAuthenticated(c) == c # "anon"

AnonKey(c) == "throttle_anon_" \o c

UserKey(c) == "throttle_user_" \o c

ThrottleKeys == {AnonKey("anon")} \cup {UserKey(c) : c \in Callers}

\* The history without the timestamps older than the window.
DropOld(h, t) == SelectSeq(h, LAMBDA s : s > t - ThrottleDuration)

\* SimpleRateThrottle.allow_request: a failure writes nothing.
AllowRequest(th, key, rate) ==
    LET h == DropOld(th[key], now)
    IN  IF Len(h) >= rate
        THEN [ok |-> FALSE, th |-> th]
        ELSE [ok |-> TRUE, th |-> [th EXCEPT ![key] = <<now>> \o h]]

\* APIView.check_throttles over [AnonRateThrottle, UserRateThrottle]: every
\* throttle is asked, also after one has failed.
CheckThrottles(c) ==
    LET a == IF IsAuthenticated(c) THEN [ok |-> TRUE, th |-> throttle]
             ELSE AllowRequest(throttle, AnonKey(c), AnonRate)
        u == AllowRequest(a.th, UserKey(c), UserRate)
    IN  [ok |-> a.ok /\ u.ok, th |-> u.th]

(* ----------------------------- responses ------------------------------ *)

NoData == <<>>

Ack == "Notificacao de atualizacao enviada para processamento em segundo plano."

\* ordering=<field> or ordering=-<field>; field "" when not supplied.
NoOrdering == [field |-> "", desc |-> FALSE]

\* A list request without query parameters.
NoQuery == [price |-> {}, stock |-> {}, created_at |-> {}, search |-> {},
            ordering |-> NoOrdering]

Respond(op, c, pk, q, status, data, hit) ==
    [op |-> op, caller |-> c, pk |-> pk, query |-> q, status |-> status,
     data |-> data, hit |-> hit, at |-> now, stored_at |-> now]

\* A response served from cache entry e.
FromCache(op, c, pk, q, e) ==
    [Respond(op, c, pk, q, 200, e.data, TRUE) EXCEPT !.stored_at = e.set_at]

Response(op, c, pk, status, data, hit) ==
    Respond(op, c, pk, NoQuery, status, data, hit)

\* No request since the clock moved.
NoResp ==
    [op |-> "none", caller |-> "anon", pk |-> "x", query |-> NoQuery,
     status |-> 0, data |-> NoData, hit |-> FALSE, at |-> 0, stored_at |-> 0]

Throttled(op, c, pk) == Response(op, c, pk, 429, NoData, FALSE)

NotFound(op, c, pk) == Response(op, c, pk, 404, NoData, FALSE)

(* ------------------------------ handlers ------------------------------ *)

\* POST /products/
Create(c, body) ==
    LET t == CheckThrottles(c) IN
    /\ next_id <= MaxProducts
    /\ throttle' = t.th
    /\ IF ~t.ok
       THEN /\ resp' = Throttled("create", c, "x")
            /\ UNCHANGED <<db, next_id>>
       ELSE IF ~IsValid(body, FALSE)
       THEN /\ resp' = Response("create", c, "x", 400, NoData, FALSE)
            /\ UNCHANGED <<db, next_id>>
       ELSE /\ db' = db \cup {NewRow(body)}
            /\ next_id' = next_id + 1
            /\ resp' = Response("create", c, "x", 201,
                                Serialize(NewRow(body)), FALSE)
    /\ UNCHANGED <<now, cache, page_cache, pc, local>>

\* Update as it would be if the changed row were inserted beside the old.
UpdateInsert(c, pk, body, partial) ==
    LET t == CheckThrottles(c)
        op == IF partial THEN "patch" ELSE "put"
        found == GetObject(pk)
    IN
    /\ throttle' = t.th
    /\ IF ~t.ok
       THEN resp' = Throttled(op, c, pk) /\ UNCHANGED db
       ELSE IF found = {}
       THEN resp' = NotFound(op, c, pk) /\ UNCHANGED db
       ELSE IF ~IsValid(body, partial)
       THEN resp' = Response(op, c, pk, 400, NoData, FALSE) /\ UNCHANGED db
       ELSE LET old == CHOOSE r \in found : TRUE
                new == ApplyBody(old, body)
            IN  /\ db' = db \cup {new}
                /\ resp' = Response(op, c, pk, 200, Serialize(new), FALSE)
    /\ UNCHANGED <<next_id, now, cache, page_cache, pc, local>>

\* PUT (partial = FALSE) or PATCH (partial = TRUE) /products/{pk}/
Update(c, pk, body, partial) ==
    LET t == CheckThrottles(c)
        op == IF partial THEN "patch" ELSE "put"
        found == GetObject(pk)
    IN
    /\ throttle' = t.th
    /\ IF ~t.ok
       THEN resp' = Throttled(op, c, pk) /\ UNCHANGED db
       ELSE IF found = {}
       THEN resp' = NotFound(op, c, pk) /\ UNCHANGED db
       ELSE IF ~IsValid(body, partial)
       THEN resp' = Response(op, c, pk, 400, NoData, FALSE) /\ UNCHANGED db
       ELSE LET old == CHOOSE r \in found : TRUE
                new == ApplyBody(old, body)
            IN  /\ db' = (db \ {old}) \cup {new}
                /\ resp' = Response(op, c, pk, 200, Serialize(new), FALSE)
    /\ UNCHANGED <<next_id, now, cache, page_cache, pc, local>>

\* DELETE /products/{pk}/
Destroy(c, pk) ==
    LET t == CheckThrottles(c)
        found == GetObject(pk)
    IN
    /\ throttle' = t.th
    /\ IF ~t.ok
       THEN resp' = Throttled("delete", c, pk) /\ UNCHANGED db
       ELSE IF found = {}
       THEN resp' = NotFound("delete", c, pk) /\ UNCHANGED db
       ELSE /\ db' = db \ found
            /\ resp' = Response("delete", c, pk, 204, NoData, FALSE)
    /\ UNCHANGED <<next_id, now, cache, page_cache, pc, local>>

\* GET /products/{pk}/
Retrieve(c, pk) ==
    LET t == CheckThrottles(c)
        found == GetObject(pk)
    IN
    /\ throttle' = t.th
    /\ resp' = IF ~t.ok THEN Throttled("retrieve", c, pk)
               ELSE IF found = {} THEN NotFound("retrieve", c, pk)
               ELSE Response("retrieve", c, pk, 200,
                             Serialize(CHOOSE r \in found : TRUE), FALSE)
    /\ UNCHANGED <<db, next_id, now, cache, page_cache, pc, local>>

\* CachedDetail as it would be with the cache read before get_object.
CachedDetailCacheFirst(c, pk) ==
    LET t == CheckThrottles(c)
        found == GetObject(pk)
        cached_data == CacheGet(cache, CacheKey(pk))
    IN
    /\ throttle' = t.th
    /\ IF ~t.ok
       THEN resp' = Throttled("cached_detail", c, pk) /\ UNCHANGED cache
       ELSE IF cached_data # {}
       THEN /\ resp' = FromCache("cached_detail", c, pk, NoQuery,
                                 CHOOSE e \in cached_data : TRUE)
            /\ UNCHANGED cache
       ELSE IF found = {}
       THEN resp' = NotFound("cached_detail", c, pk) /\ UNCHANGED cache
       ELSE LET data == Serialize(CHOOSE r \in found : TRUE)
            IN  /\ cache' = CacheSet(cache, CacheKey(pk), data, DetailTimeout)
                /\ resp' = Response("cached_detail", c, pk, 200, data, FALSE)
    /\ UNCHANGED <<db, next_id, now, page_cache, pc, local>>

\* GET /products/{pk}/cached_detail/
CachedDetail(c, pk) ==
    LET t == CheckThrottles(c)
        found == GetObject(pk)
        cached_data == CacheGet(cache, CacheKey(pk))
    IN
    /\ throttle' = t.th
    /\ IF ~t.ok
       THEN resp' = Throttled("cached_detail", c, pk) /\ UNCHANGED cache
       ELSE IF found = {}
       THEN resp' = NotFound("cached_detail", c, pk) /\ UNCHANGED cache
       ELSE IF cached_data # {}
       THEN /\ resp' = FromCache("cached_detail", c, pk, NoQuery,
                                 CHOOSE e \in cached_data : TRUE)
            /\ UNCHANGED cache
       ELSE LET data == Serialize(CHOOSE r \in found : TRUE)
            IN  /\ cache' = CacheSet(cache, CacheKey(pk), data, DetailTimeout)
                /\ resp' = Response("cached_detail", c, pk, 200, data, FALSE)
    /\ UNCHANGED <<db, next_id, now, page_cache, pc, local>>

\* NotifyUpdate as it would be without the get_object call.
NotifyUpdateNoLookup(c, pk, body) ==
    LET t == CheckThrottles(c) IN
    /\ throttle' = t.th
    /\ resp' = IF ~t.ok THEN Throttled("notify_update", c, pk)
               ELSE Response("notify_update", c, pk, 200,
                             [status |-> Ack], FALSE)
    /\ UNCHANGED <<db, next_id, now, cache, page_cache, pc, local>>

\* POST /products/{pk}/notify_update/
NotifyUpdate(c, pk, body) ==
    LET t == CheckThrottles(c)
        found == GetObject(pk)
    IN
    /\ throttle' = t.th
    /\ resp' = IF ~t.ok THEN Throttled("notify_update", c, pk)
               ELSE IF found = {} THEN NotFound("notify_update", c, pk)
               ELSE Response("notify_update", c, pk, 200,
                             [status |-> Ack], FALSE)
    /\ UNCHANGED <<db, next_id, now, cache, page_cache, pc, local>>

(* ------------------ cached_detail, one step at a time ----------------- *)

Workers == {"w1", "w2"}

NoLocal == [caller |-> "anon", pk |-> "x", product |-> Absent]

\* The throttle check and line 40, product = self.get_object().
CDGetObject(w, c, pk) ==
    LET t == CheckThrottles(c)
        found == GetObject(pk)
    IN
    /\ pc[w] = "idle"
    /\ throttle' = t.th
    /\ IF ~t.ok
       THEN resp' = Throttled("cached_detail", c, pk) /\ UNCHANGED <<pc, local>>
       ELSE IF found = {}
       THEN resp' = NotFound("cached_detail", c, pk) /\ UNCHANGED <<pc, local>>
       ELSE /\ pc' = [pc EXCEPT ![w] = "cache_get"]
            /\ local' = [local EXCEPT ![w] =
                            [caller |-> c, pk |-> pk,
                             product |-> CHOOSE r \in found : TRUE]]
            /\ UNCHANGED resp
    /\ UNCHANGED <<db, next_id, now, cache, page_cache>>

\* Lines 41-45, cache.get and the response on a hit.
CDCacheGet(w) ==
    LET cached_data == CacheGet(cache, CacheKey(local[w].pk)) IN
    /\ pc[w] = "cache_get"
    /\ IF cached_data # {}
       THEN /\ resp' = FromCache("cached_detail", local[w].caller, local[w].pk,
                                 NoQuery, CHOOSE e \in cached_data : TRUE)
            /\ pc' = [pc EXCEPT ![w] = "idle"]
            /\ local' = [local EXCEPT ![w] = NoLocal]
       ELSE /\ pc' = [pc EXCEPT ![w] = "cache_set"]
            /\ UNCHANGED <<resp, local>>
    /\ UNCHANGED <<db, next_id, now, cache, page_cache, throttle>>

\* Lines 48-51, serialization of the product read at line 40, cache.set
\* and the response.
CDCacheSet(w) ==
    LET data == Serialize(local[w].product) IN
    /\ pc[w] = "cache_set"
    /\ cache' = CacheSet(cache, CacheKey(local[w].pk), data, DetailTimeout)
    /\ resp' = Response("cached_detail", local[w].caller, local[w].pk, 200,
                        data, FALSE)
    /\ pc' = [pc EXCEPT ![w] = "idle"]
    /\ local' = [local EXCEPT ![w] = NoLocal]
    /\ UNCHANGED <<db, next_id, now, page_cache, throttle>>

(* -------------------------------- list -------------------------------- *)

filterset_fields == {"price", "stock", "created_at"}

search_fields == {"name", "description"}

ordering_fields == {"name", "price", "stock", "created_at"}

Code(ch) ==
    CASE ch = "A" -> 65 [] ch = "B" -> 66 [] ch = "C" -> 67
      [] ch = "a" -> 97 [] ch = "b" -> 98 [] ch = "c" -> 99
      [] OTHER -> 0

Lower(ch) == CASE ch = "A" -> "a" [] ch = "B" -> "b" [] ch = "C" -> "c"
               [] OTHER -> ch

\* Text comparison, character by character.
RECURSIVE TextLeq(_, _)
TextLeq(a, b) ==
    IF a = <<>> THEN TRUE
    ELSE IF b = <<>> THEN FALSE
    ELSE IF Code(Head(a)) # Code(Head(b)) THEN Code(Head(a)) < Code(Head(b))
    ELSE TextLeq(Tail(a), Tail(b))

\* icontains
IContains(text, term) ==
    \E i \in 1 .. (Len(text) - Len(term) + 1) :
        \A j \in 1 .. Len(term) : Lower(text[i + j - 1]) = Lower(term[j])

\* FilterRows as it would be if one matching filter were enough.
FilterRowsAny(rows, q) ==
    {r \in rows : \/ \A f \in filterset_fields : q[f] = {}
                  \/ \E f \in filterset_fields : r[f] \in q[f]}

\* DjangoFilterBackend: every supplied filter is an exact match.
FilterRows(rows, q) ==
    {r \in rows : \A f \in filterset_fields : q[f] = {} \/ r[f] \in q[f]}

\* SearchFilter: every term in some search field.
SearchRows(rows, q) ==
    {r \in rows : \A term \in q.search :
                      \E f \in search_fields : IContains(r[f], term)}

FieldLeq(f, r1, r2) ==
    IF f = "name" THEN TextLeq(r1.name, r2.name) ELSE r1[f] <= r2[f]

\* The sequences order_by(field) may return: rows with equal keys come
\* in any order.
OrderBy(rows, f, desc) ==
    {s \in [1 .. Cardinality(rows) -> rows] :
        /\ \A i, j \in DOMAIN s : i # j => s[i] # s[j]
        /\ \A i, j \in DOMAIN s :
               i < j => IF desc THEN FieldLeq(f, s[j], s[i])
                        ELSE FieldLeq(f, s[i], s[j])}

\* OrderRows as it would be if the '-' of a descending ordering were lost.
OrderRowsAscending(rows, q) ==
    IF q.ordering.field \in ordering_fields
    THEN OrderBy(rows, q.ordering.field, FALSE)
    ELSE OrderBy(rows, "id", FALSE)

\* OrderingFilter: a field outside ordering_fields is dropped and the
\* queryset's own order_by('id') stays.
OrderRows(rows, q) ==
    IF q.ordering.field \in ordering_fields
    THEN OrderBy(rows, q.ordering.field, q.ordering.desc)
    ELSE OrderBy(rows, "id", FALSE)

\* filter_queryset over Product.objects.all().order_by('id')
ListQuery(rows, q) == OrderRows(SearchRows(FilterRows(rows, q), q), q)

Payload(s) == [i \in DOMAIN s |-> Serialize(s[i])]

\* List as it would be with the page cache in front of the throttle check.
ListCacheFirst(c, q) ==
    LET t == CheckThrottles(c)
        cached == CacheGet(page_cache, q)
    IN
    /\ IF cached # {}
       THEN /\ resp' = FromCache("list", c, "x", q, CHOOSE e \in cached : TRUE)
            /\ UNCHANGED <<page_cache, throttle>>
       ELSE IF ~t.ok
       THEN /\ resp' = Respond("list", c, "x", q, 429, NoData, FALSE)
            /\ throttle' = t.th
            /\ UNCHANGED page_cache
       ELSE /\ Cardinality(page_cache) < MaxPageEntries
            /\ throttle' = t.th
            /\ \E s \in ListQuery(db, q) :
                 /\ page_cache' = CacheSet(page_cache, q, Payload(s), ListTimeout)
                 /\ resp' = Respond("list", c, "x", q, 200, Payload(s), FALSE)
    /\ UNCHANGED <<db, next_id, now, cache, pc, local>>

\* GET /products/?<q>, behind cache_page(60): the page cache is keyed by
\* the request's query parameters.
List(c, q) ==
    LET t == CheckThrottles(c)
        cached == CacheGet(page_cache, q)
    IN
    /\ throttle' = t.th
    /\ IF ~t.ok
       THEN resp' = Respond("list", c, "x", q, 429, NoData, FALSE)
            /\ UNCHANGED page_cache
       ELSE IF cached # {}
       THEN /\ resp' = FromCache("list", c, "x", q, CHOOSE e \in cached : TRUE)
            /\ UNCHANGED page_cache
       ELSE /\ Cardinality(page_cache) < MaxPageEntries
            /\ \E s \in ListQuery(db, q) :
                 /\ page_cache' = CacheSet(page_cache, q, Payload(s), ListTimeout)
                 /\ resp' = Respond("list", c, "x", q, 200, Payload(s), FALSE)
    /\ UNCHANGED <<db, next_id, now, cache, pc, local>>

(* ------------------------------- time --------------------------------- *)

\* Time passes by d; entries and timestamps that have expired are gone.
Tick(d) ==
    /\ now' = now + d
    /\ cache' = {e \in cache : ~Expired(e, now + d)}
    /\ page_cache' = {e \in page_cache : ~Expired(e, now + d)}
    /\ throttle' = [k \in ThrottleKeys |-> DropOld(throttle[k], now + d)]
    /\ resp' = NoResp
    /\ UNCHANGED <<db, next_id, pc, local>>

(* ------------------------------ inputs -------------------------------- *)

Body1 == [name |-> <<"a">>, description |-> <<"B">>, price |-> 1, stock |-> 0,
          id |-> 2, created_at |-> 7]

Body2 == [name |-> <<"b">>, description |-> <<"c">>, price |-> 2, stock |-> 1]

Patch1 == [stock |-> 1, id |-> 1]

Invalid1 == [name |-> <<"a">>, stock |-> 0]

Bodies == {Body1, Patch1, Invalid1}

(* ------------------------ the sequential system ----------------------- *)

Init ==
    /\ db = {}
    /\ next_id = 1
    /\ now = 0
    /\ cache = {}
    /\ page_cache = {}
    /\ throttle = [k \in ThrottleKeys |-> <<>>]
    /\ resp = NoResp
    /\ pc = [w \in Workers |-> "idle"]
    /\ local = [w \in Workers |-> NoLocal]
    /\ held = {}
    /\ first = {}
    /\ listed = {}
    /\ admitted = [c \in Callers |-> <<>>]

\* What cached_detail responses the history keeps: those that stored
\* their entry less than 300 ago, with the product they were for.
LogFirst ==
    first' =
        {f \in first : now' - f.at < 300}
        \cup (IF resp'.op = "cached_detail" /\ resp'.status = 200 /\ ~resp'.hit
              THEN {[id |-> ParsePk(resp'.pk), data |-> resp'.data,
                     at |-> resp'.at]}
              ELSE {})

Next ==
    \/ \E b \in Bodies : Create("u1", b) /\ LogFirst /\ UNCHANGED <<held, listed, admitted>>
    \/ \E pk \in PKs, b \in Bodies, p \in BOOLEAN :
           Update("u1", pk, b, p) /\ LogFirst /\ UNCHANGED <<held, listed, admitted>>
    \/ \E pk \in PKs : Destroy("u1", pk) /\ LogFirst /\ UNCHANGED <<held, listed, admitted>>
    \/ \E pk \in PKs : Retrieve("u1", pk) /\ LogFirst /\ UNCHANGED <<held, listed, admitted>>
    \/ \E pk \in PKs : CachedDetail("u1", pk) /\ LogFirst /\ UNCHANGED <<held, listed, admitted>>
    \/ \E pk \in PKs, b \in Bodies :
           NotifyUpdate("u1", pk, b) /\ LogFirst /\ UNCHANGED <<held, listed, admitted>>
    \/ \E d \in {150} :
           now + d <= MaxTime /\ Tick(d) /\ LogFirst /\ UNCHANGED <<held, listed, admitted>>

Spec == Init /\ [][Next]_vars

(* --------------------- list over a given table ------------------------ *)

Body3 == [name |-> <<"a", "b">>, description |-> <<"c">>, price |-> 1,
          stock |-> 1]

Body4 == [name |-> <<"b">>, description |-> <<"B">>, price |-> 2, stock |-> 0]

ListBodies == {Body1, Body2, Body3, Body4}

\* Rows a product created at 0 or 30 can be.
ListRows(i) ==
    {ApplyBody([id |-> i, name |-> <<>>, description |-> <<>>, price |-> 0,
                stock |-> 0, created_at |-> t], b) :
        b \in ListBodies, t \in {0, 30}}

\* Tables of at most MaxProducts rows with distinct ids.
Tables ==
    {{f[i] : i \in 1 .. MaxProducts} \ {Absent} :
        f \in {g \in [1 .. MaxProducts ->
                         UNION {ListRows(i) : i \in 1 .. MaxProducts}
                             \cup {Absent}] :
                  \A i \in 1 .. MaxProducts : g[i] = Absent \/ g[i].id = i}}

Orderings ==
    {NoOrdering} \cup
    [field : ordering_fields \cup {"id"}, desc : BOOLEAN]

Queries ==
    [price : {{}, {1}}, stock : {{}, {1}}, created_at : {{}, {0}},
     search : {{}, {<<"b">>}}, ordering : Orderings]

InitList ==
    /\ db \in Tables
    /\ next_id = MaxProducts + 1
    /\ now = 30
    /\ cache = {}
    /\ page_cache = {}
    /\ throttle = [k \in ThrottleKeys |-> <<>>]
    /\ resp = NoResp
    /\ pc = [w \in Workers |-> "idle"]
    /\ local = [w \in Workers |-> NoLocal]
    /\ held = {}
    /\ first = {}
    /\ listed = {}
    /\ admitted = [c \in Callers |-> <<>>]

NextList ==
    \/ \E q \in Queries :
           /\ page_cache = {}
           /\ List("u1", q)
           /\ NoLog
    \/ \E d \in {30} :
           now + d <= MaxListTime /\ Tick(d) /\ NoLog

SpecList == InitList /\ [][NextList]_vars

(* ------------------- list while the table changes --------------------- *)

\* What list responses the history keeps: per query the last response
\* that filled the page cache and the last response after it.
LogList ==
    listed' =
        IF resp'.op = "list" /\ resp'.status = 200
        THEN {l \in listed :
                 l.query # resp'.query \/ (l.stored /\ resp'.hit)}
             \cup {[query |-> resp'.query, data |-> resp'.data,
                    at |-> resp'.at, stored |-> ~resp'.hit]}
        ELSE {l \in listed : now' - l.at < ListTimeout}

StaleQueries == {NoQuery, [NoQuery EXCEPT !.price = {1}]}

NextStale ==
    \/ \E b \in {Body2} :
           Create("u1", b) /\ LogList /\ UNCHANGED <<held, first, admitted>>
    \/ \E pk \in {"1"}, b \in {Body1} :
           Update("u1", pk, b, FALSE) /\ LogList /\ UNCHANGED <<held, first, admitted>>
    \/ \E pk \in {"1"} :
           Destroy("u1", pk) /\ LogList /\ UNCHANGED <<held, first, admitted>>
    \/ \E c \in Callers, q \in StaleQueries :
           List(c, q) /\ LogList /\ UNCHANGED <<held, first, admitted>>
    \/ \E d \in {30} :
           /\ now + d <= MaxListTime
           /\ Tick(d) /\ LogList /\ UNCHANGED <<held, first, admitted>>

SpecStale == Init /\ [][NextStale]_vars

(* ------------------------- throttled requests ------------------------- *)

\* The history of admitted requests: every response but 429 is one, and
\* times out of the window are dropped.
LogAdmitted ==
    admitted' =
        IF resp'.op = "none"
        THEN [c \in Callers |-> DropOld(admitted[c], now')]
        ELSE IF resp'.status = 429 THEN admitted
        ELSE [admitted EXCEPT ![resp'.caller] = <<now>> \o DropOld(@, now)]

LogT == LogAdmitted /\ UNCHANGED <<held, first, listed>>

NextThrottle ==
    \/ \E c \in Callers : Create(c, Body1) /\ LogT
    \/ \E c \in Callers : Update(c, "1", Patch1, TRUE) /\ LogT
    \/ \E c \in Callers : Destroy(c, "1") /\ LogT
    \/ \E c \in Callers : Retrieve(c, "1") /\ LogT
    \/ \E c \in Callers : CachedDetail(c, "1") /\ LogT
    \/ \E c \in Callers : NotifyUpdate(c, "1", Patch1) /\ LogT
    \/ \E c \in Callers : List(c, NoQuery) /\ LogT
    \/ \E d \in {30} : now + d <= MaxThrottleTime /\ Tick(d) /\ LogT

SpecThrottle == Init /\ [][NextThrottle]_vars

(* ------------------------ interleaved requests ------------------------ *)

\* The history of product states: each row a step replaces or removes,
\* with the time it was last in the table.
LogHeld ==
    held' =
        LET lost == db \ db'
        IN  {h \in held : \A r \in lost :
                              ~(h.id = r.id /\ h.data = Serialize(r))}
            \cup {[id |-> r.id, data |-> Serialize(r), until |-> now] :
                     r \in lost}

LogC == LogHeld /\ UNCHANGED <<first, listed, admitted>>

InitConc ==
    /\ db = {ApplyBody([Absent EXCEPT !.id = 1], Body1)}
    /\ next_id = 2
    /\ now = 0
    /\ cache = {}
    /\ page_cache = {}
    /\ throttle = [k \in ThrottleKeys |-> <<>>]
    /\ resp = NoResp
    /\ pc = [w \in Workers |-> "idle"]
    /\ local = [w \in Workers |-> NoLocal]
    /\ held = {}
    /\ first = {}
    /\ listed = {}
    /\ admitted = [c \in Callers |-> <<>>]

NextConc ==
    \/ \E b \in {Body1, Body2} : Update("u1", "1", b, FALSE) /\ LogC
    \/ \E w \in Workers, pk \in {"1", "01"} : CDGetObject(w, "u1", pk) /\ LogC
    \/ \E w \in Workers : CDCacheGet(w) /\ LogC
    \/ \E w \in Workers : CDCacheSet(w) /\ LogC
    \/ \E d \in {200} : now + d <= MaxConcTime /\ Tick(d) /\ LogC

SpecConc == InitConc /\ [][NextConc]_vars

(* ============================== claims ================================ *)

Elems(s) == {s[i] : i \in DOMAIN s}

\* The step is an admitted request of kind op (every step sets resp).
Admitted(op) == resp'.op = op /\ resp'.status # 429

LiveUnder(key) == {e \in cache : e.key = key /\ now < e.set_at + 300}

C2_SecondCallIdentical ==
    [][(resp'.op = "cached_detail" /\ resp'.status = 200) =>
        \A f \in first :
            (f.id = ParsePk(resp'.pk) /\ now - f.at < 300)
                => resp'.data = f.data
       ]_vars

\* C4: retrieve and cached_detail of a pk that names no stored row answer
\* 404 with no payload, and cached_detail then leaves the cache alone and
\* serves nothing from it, whatever entry is under the key.
C4_NotFound ==
    [][((Admitted("retrieve") \/ Admitted("cached_detail"))
            /\ GetObject(resp'.pk) = {}) =>
        /\ resp'.status = 404
        /\ resp'.data = NoData
        /\ ~resp'.hit
        /\ cache' = cache
       ]_vars

\* cached_detail answered 404 while the deleted product's entry is alive.
C4_Witness ==
    /\ resp.op = "cached_detail" /\ resp.status = 404
    /\ LiveUnder("product_detail_" \o resp.pk) # {}
    /\ \A r \in db : r.id # ParsePk(resp.pk)

\* C8: notify_update of a stored product answers 200 with the fixed
\* acknowledgement, of a pk that names none 404; either way table, id
\* sequence, cache and page cache stay as they are.
C8_NotifyUpdate ==
    [][Admitted("notify_update") =>
        /\ IF GetObject(resp'.pk) # {}
           THEN /\ resp'.status = 200
                /\ resp'.data = [status |->
                      "Notificacao de atualizacao enviada para processamento em segundo plano."]
           ELSE resp'.status = 404 /\ resp'.data = NoData
        /\ UNCHANGED <<db, next_id, cache, page_cache>>
       ]_vars

\* An acknowledgement while the product's cache entry is alive and stale.
C8_Witness ==
    /\ resp.op = "notify_update" /\ resp.status = 200
    /\ \E e \in cache, r \in db :
           e.key = "product_detail_" \o resp.pk /\ r.id = ParsePk(resp.pk)
               /\ e.data # Serialize(r)

\* C9: no two stored rows share an id, and no step changes the id or the
\* created_at of a row that stays: a row of the next table with the id of
\* a row of this one has its created_at.
C9_IdUniqueImmutable ==
    /\ [](\A r1, r2 \in db : r1.id = r2.id => r1 = r2)
    /\ [][/\ \A r \in db, n \in db' :
                 r.id = n.id => r.created_at = n.created_at
          /\ (resp'.op \in {"put", "patch"} /\ resp'.status = 200) =>
                 /\ {r.id : r \in db'} = {r.id : r \in db}
                 /\ resp'.data.id = ParsePk(resp'.pk)
         ]_vars

\* A PUT whose body names another id and created_at has been applied, and
\* an id is free again after a delete.
C9_Witness ==
    /\ resp.op = "put" /\ resp.status = 200
    /\ \E r \in db : r.id = 1 /\ r.name = Body1.name /\ r.created_at # Body1.created_at
    /\ \E r \in db : r.id = 2 /\ r.created_at > 0

\* C6: a list response computed from the table (no search terms given)
\* holds, once each, exactly the stored rows that equal every supplied
\* price / stock / created_at filter value.
C6_ExactFilters ==
    (resp.op = "list" /\ resp.status = 200 /\ ~resp.hit
        /\ resp.query.search = {}) =>
        LET q == resp.query
            matching == {r \in db : /\ q.price = {} \/ r.price \in q.price
                                    /\ q.stock = {} \/ r.stock \in q.stock
                                    /\ q.created_at = {}
                                           \/ r.created_at \in q.created_at}
        IN  /\ Elems(resp.data) = {Serialize(r) : r \in matching}
            /\ Len(resp.data) = Cardinality(matching)

\* Two filters given; one stored row passes both, another fails one.
C6_Witness ==
    /\ resp.op = "list" /\ resp.status = 200 /\ ~resp.hit
    /\ resp.query.search = {}
    /\ resp.query.price # {} /\ resp.query.stock # {}
    /\ Len(resp.data) = 1
    /\ \E r \in db : r.price \in resp.query.price /\ r.stock \notin resp.query.stock

\* C7: a list response computed from the table is sorted by the requested
\* field of ordering_fields in the requested direction, and by id
\* ascending when no such ordering is requested.
C7_Ordering ==
    (resp.op = "list" /\ resp.status = 200 /\ ~resp.hit) =>
        LET d == resp.data
            o == resp.query.ordering
            Before(a, b) ==
                CASE o.field = "name" -> TextLeq(a.name, b.name)
                  [] o.field = "price" -> a.price <= b.price
                  [] o.field = "stock" -> a.stock <= b.stock
                  [] o.field = "created_at" -> a.created_at <= b.created_at
                  [] OTHER -> a.id < b.id
        IN  \A i, j \in DOMAIN d :
                i < j => IF o.desc /\ o.field \in {"name", "price", "stock",
                                                   "created_at"}
                         THEN Before(d[j], d[i]) ELSE Before(d[i], d[j])

\* A descending ordering by name was served with two different names.
C7_Witness ==
    /\ resp.op = "list" /\ resp.status = 200 /\ ~resp.hit
    /\ resp.query.ordering = [field |-> "name", desc |-> TRUE]
    /\ Len(resp.data) = 2
    /\ resp.data[1].name = <<"b">> /\ resp.data[2].name = <<"a", "b">>
    /\ resp.data[1].id < resp.data[2].id

\* C3 as claimed: a list response equals every response to the same query
\* parameters made less than 60 before it.
C3_WithinSixtyIdentical ==
    [][(resp'.op = "list" /\ resp'.status = 200) =>
        \A l \in listed :
            (l.query = resp'.query /\ now - l.at < 60) => resp'.data = l.data
       ]_vars

\* C3 amended: a list response equals the response that filled the page
\* cache for the same query parameters less than 60 before it; when no
\* response to these parameters did, it is computed from the table, whatever
\* is cached for other parameters.
C3_WithinSixtyOfStore ==
    [][(resp'.op = "list" /\ resp'.status = 200) =>
        LET stored == {l \in listed : /\ l.stored
                                      /\ l.query = resp'.query
                                      /\ now - l.at < 60}
        IN  IF stored # {}
            THEN resp'.hit /\ \A l \in stored : resp'.data = l.data
            ELSE /\ ~resp'.hit
                 /\ resp'.data \in {Payload(s) : s \in ListQuery(db, resp'.query)}
       ]_vars

\* A stale page was served 30 after it was stored, while another query's
\* page with a different payload is cached too.
C3_Witness ==
    /\ resp.op = "list" /\ resp.status = 200 /\ resp.hit
    /\ resp.at > resp.stored_at
    /\ resp.data \notin {Payload(s) : s \in ListQuery(db, resp.query)}
    /\ \E e \in page_cache : e.key # resp.query /\ e.data # resp.data

\* C5: a request of a caller who already has UserRate admitted requests in
\* the last ThrottleDuration (AnonRate for the anonymous caller) is
\* answered 429, on every endpoint and whatever is cached; a request
\* answered 429 leaves table, id sequence, cache and page cache alone.
C5_RateLimited ==
    [][resp'.op # "none" =>
        LET c == resp'.caller
            n == Cardinality({i \in DOMAIN admitted[c] :
                                 admitted[c][i] > now - ThrottleDuration})
        IN  /\ (n >= UserRate \/ (c = "anon" /\ n >= AnonRate))
                   => resp'.status = 429
            /\ resp'.status = 429
                   => UNCHANGED <<db, next_id, cache, page_cache>>
       ]_vars

\* A list request was answered 429 while its page is cached.
C5_Witness ==
    /\ resp.op = "list" /\ resp.status = 429
    /\ \E e \in page_cache : e.key = resp.query /\ now < e.set_at + 60
    /\ cache # {}

\* The serialized states product i has now or had at time t or later.
StatesSince(i, t) ==
    {Serialize(r) : r \in {x \in db : x.id = i}}
        \cup {h.data : h \in {x \in held : x.id = i /\ x.until >= t}}

\* C10 as claimed: a cached_detail response is a state the product had at
\* most 300 before the response.
C10_BoundedStaleness ==
    (resp.op = "cached_detail" /\ resp.status = 200) =>
        resp.data \in StatesSince(ParsePk(resp.pk), resp.at - 300)

\* C10 amended: a cached_detail response is a state the product had at
\* some moment, and the cache entry it comes from was written less than
\* 300 before the response (a computed response is its own write).
C10_BoundedEntryAge ==
    (resp.op = "cached_detail" /\ resp.status = 200) =>
        /\ resp.data \in StatesSince(ParsePk(resp.pk), 0)
        /\ resp.stored_at <= resp.at
        /\ resp.at - resp.stored_at < 300
        /\ ~resp.hit => resp.stored_at = resp.at

\* A response served from the cache 200 after the write, with a state the
\* product had lost before the entry was written.
C10_Witness ==
    /\ resp.op = "cached_detail" /\ resp.status = 200 /\ resp.hit
    /\ resp.at - resp.stored_at = 200
    /\ \E h \in held : /\ h.id = ParsePk(resp.pk) /\ h.data = resp.data
                       /\ h.until < resp.stored_at
    /\ \A r \in db : Serialize(r) # resp.data

====
